---- MODULE Spec2Model ----
(***************************************************************************)
(* Model of the outreach engine's campaign orchestration:                  *)
(*   - StateManager (app/api/state_manager.py): the campaign registry and  *)
(*     the per-campaign event queues, with broadcast tasks that the event  *)
(*     loop runs later, in creation order;                                 *)
(*   - run_campaign_workflow (app/api/workflow_runner.py): the API driver; *)
(*   - approve_drafts and the SSE stream (app/api/main.py);                *)
(*   - run_approval_loop (main.py): the CLI approval / regeneration loop.  *)
(*                                                                         *)
(* Python dicts are functions whose DOMAIN is the dict's key set, lists    *)
(* are sequences.  Timestamps (datetime.utcnow()) and created_at are left  *)
(* out of the records: no operation reads them.                            *)
(***************************************************************************)
EXTENDS Integers, Sequences, FiniteSets, TLC

VARIABLES
    campaigns,     \* StateManager.campaigns: campaign id -> campaign record
    event_queues,  \* StateManager.event_queues: campaign id -> list of queues
    queues,        \* the asyncio.Queue objects made by subscribe: handle -> record
    tasks,         \* broadcast tasks created by update_stage, not yet run (FIFO)
    driver,        \* run_campaign_workflow tasks: campaign id -> position and locals
    streams,       \* SSE event_generator instances: handle -> position
    loop,          \* run_approval_loop (CLI): position and locals
    log,           \* history: campaign id -> events made by update_stage, in call order
    responses,     \* history: the HTTP responses given, as [op, cid, code]
    call           \* one call of a helper function: its inputs, then its result

smVars == <<campaigns, event_queues, queues, tasks, log>>
vars == <<campaigns, event_queues, queues, tasks, driver, streams, loop, log, responses, call>>

\* ------------------------------------------------------------------ bounds
MaxHandles == 2
MaxUpdates == 3
MaxListed == 2

\* ------------------------------------------------------------ vocabulary
CampaignIds == {"c1", "c2"}

StageNames ==
    {"ingestion", "persona", "drafting", "scoring", "approval", "execution", "persistence"}

EmptyDict == [k \in {} |-> k]

\* no helper function has been called
NoCall == [fn |-> "none"]

Range(s) == {s[i] : i \in 1..Len(s)}

\* dict.get(key, default)
Get(d, key, default) == IF key \in DOMAIN d THEN d[key] ELSE default

\* d[key] = value on a dict
Put(d, key, value) == [k \in DOMAIN d \cup {key} |-> IF k = key THEN value ELSE d[k]]

\* ------------------------------------------------------------ StateManager
\* The registry part of the StateManager, threaded through the calls of one step.
SM == [campaigns |-> campaigns, tasks |-> tasks, log |-> log]

InitialStages == [s \in StageNames |-> [status |-> "pending", message |-> ""]]

NewCampaign(campaign_id, input_data) ==
    [id |-> campaign_id,
     status |-> "created",
     current_stage |-> "pending",
     input |-> input_data,
     state |-> EmptyDict,
     stages |-> InitialStages]

StageEvent(stage, status, message) ==
    [type |-> "stage_update", stage |-> stage, status |-> status, message |-> message]

\* update_stage that records the stage and publishes nothing
update_stage_no_event(sm, campaign_id, stage, status, message) ==
    IF campaign_id \in DOMAIN sm.campaigns
    THEN [sm EXCEPT
            !.campaigns[campaign_id].stages =
                Put(@, stage, [status |-> status, message |-> message]),
            !.campaigns[campaign_id].current_stage = stage]
    ELSE sm

\* update_stage that publishes the event before it looks the campaign up
update_stage_publish_first(sm, campaign_id, stage, status, message) ==
    LET sm1 == [sm EXCEPT
                  !.tasks = Append(@, [cid |-> campaign_id,
                                       event |-> StageEvent(stage, status, message)]),
                  !.log[campaign_id] = Append(@, StageEvent(stage, status, message))]
    IN IF campaign_id \in DOMAIN sm.campaigns
       THEN [sm1 EXCEPT
               !.campaigns[campaign_id].stages =
                   Put(@, stage, [status |-> status, message |-> message]),
               !.campaigns[campaign_id].current_stage = stage]
       ELSE sm1

update_stage(sm, campaign_id, stage, status, message) ==
    IF campaign_id \in DOMAIN sm.campaigns
    THEN [sm EXCEPT
            !.campaigns[campaign_id].stages =
                Put(@, stage, [status |-> status, message |-> message]),
            !.campaigns[campaign_id].current_stage = stage,
            !.tasks = Append(@, [cid |-> campaign_id,
                                 event |-> StageEvent(stage, status, message)]),
            !.log[campaign_id] = Append(@, StageEvent(stage, status, message))]
    ELSE sm

\* update_state that keeps the old status when the snapshot has none
update_state_keep(sm, campaign_id, state) ==
    IF campaign_id \in DOMAIN sm.campaigns
    THEN [sm EXCEPT
            !.campaigns[campaign_id].state = state,
            !.campaigns[campaign_id].status = Get(state, "status", @)]
    ELSE sm

update_state(sm, campaign_id, state) ==
    IF campaign_id \in DOMAIN sm.campaigns
    THEN [sm EXCEPT
            !.campaigns[campaign_id].state = state,
            !.campaigns[campaign_id].status = Get(state, "status", "running")]
    ELSE sm

\* a broadcast that goes to the handles of every campaign
BroadcastTargetsAll(campaign_id) ==
    UNION {Range(event_queues[c]) : c \in DOMAIN event_queues}

\* The handles a broadcast task for campaign_id puts its event on: the queues
\* registered when the task runs.
BroadcastTargets(campaign_id) ==
    IF campaign_id \in DOMAIN event_queues THEN Range(event_queues[campaign_id]) ELSE {}

\* list.remove(x): the first occurrence goes, ValueError (passed) when absent
RECURSIVE Remove(_, _)
Remove(s, x) ==
    IF s = <<>> THEN <<>>
    ELSE IF Head(s) = x THEN Tail(s)
    ELSE <<Head(s)>> \o Remove(Tail(s), x)

\* -------------------------------------------------- StateManager operations
\* create_campaign that starts the queue table afresh
CreateCampaignResetQueues(campaign_id, input_data) ==
    /\ campaign_id \notin DOMAIN campaigns
    /\ campaigns' = Put(campaigns, campaign_id, NewCampaign(campaign_id, input_data))
    /\ event_queues' = Put(EmptyDict, campaign_id, <<>>)

\* create_campaign: uuid4 yields an id the registry does not hold.
CreateCampaign(campaign_id, input_data) ==
    /\ campaign_id \notin DOMAIN campaigns
    /\ campaigns' = Put(campaigns, campaign_id, NewCampaign(campaign_id, input_data))
    /\ event_queues' = Put(event_queues, campaign_id, <<>>)

\* subscribe: a new asyncio.Queue h, appended to the campaign's list.  cid and
\* subAt are history: the campaign subscribed to, and how many update_stage
\* calls had been made for it.
Subscribe(campaign_id, h) ==
    /\ h = Cardinality(DOMAIN queues) + 1
    /\ h <= MaxHandles
    /\ queues' = Put(queues, h, [cid |-> campaign_id,
                                 received |-> <<>>,
                                 taken |-> 0,
                                 subAt |-> Len(log[campaign_id])])
    /\ event_queues' =
          Put(event_queues, campaign_id, Append(Get(event_queues, campaign_id, <<>>), h))

\* unsubscribe that empties the campaign's list
UnsubscribeClear(campaign_id, h) ==
    event_queues' =
        IF campaign_id \in DOMAIN event_queues
        THEN [event_queues EXCEPT ![campaign_id] = <<>>]
        ELSE event_queues

Unsubscribe(campaign_id, h) ==
    event_queues' =
        IF campaign_id \in DOMAIN event_queues
        THEN [event_queues EXCEPT ![campaign_id] = Remove(@, h)]
        ELSE event_queues

\* _broadcast_event run twice for one task
DeliverTwice(q, event) == [q EXCEPT !.received = @ \o <<event, event>>]

\* a put on a queue of size one: the event is not taken while one is unread
DeliverBounded(q, event) ==
    IF Len(q.received) - q.taken >= 1 THEN q ELSE [q EXCEPT !.received = Append(@, event)]

\* queue.put(event) on an unbounded queue: never waits
Deliver(q, event) == [q EXCEPT !.received = Append(@, event)]

\* The event loop runs the oldest broadcast task: _broadcast_event puts the
\* event on every queue registered for the campaign at that moment.
RunBroadcast ==
    /\ tasks # <<>>
    /\ LET t == Head(tasks) IN
          queues' = [h \in DOMAIN queues |->
                        IF h \in BroadcastTargets(t.cid)
                        THEN Deliver(queues[h], t.event)
                        ELSE queues[h]]
    /\ tasks' = Tail(tasks)
    /\ UNCHANGED <<campaigns, event_queues, driver, streams, loop, log, responses, call>>

\* ------------------------------------------------------------------- Init
Init ==
    /\ campaigns = EmptyDict
    /\ event_queues = EmptyDict
    /\ queues = EmptyDict
    /\ tasks = <<>>
    /\ driver = EmptyDict
    /\ streams = EmptyDict
    /\ loop = [pc |-> "idle"]
    /\ log = [c \in CampaignIds |-> <<>>]
    /\ responses = {}
    /\ call = NoCall

\* --------------------------------------- the StateManager under any caller
\* The k-th update_stage call a publisher makes for a campaign: each stage in
\* pipeline order, running and then completed.
StageOrder ==
    <<"ingestion", "persona", "drafting", "scoring", "approval", "execution", "persistence">>

BusStage(k) == StageOrder[(((k + 1) \div 2 - 1) % Len(StageOrder)) + 1]
BusStatus(k) == IF k % 2 = 1 THEN "running" ELSE "completed"
BusSnapshots == {EmptyDict, [status |-> "scored"], [status |-> "persisted"]}

\* the number of update_stage calls that published an event, over a set of campaigns
RECURSIVE Published(_)
Published(ids) ==
    IF ids = {} THEN 0
    ELSE LET c == CHOOSE x \in ids : TRUE IN Len(log[c]) + Published(ids \ {c})

BusCreate ==
    \E c \in CampaignIds :
       /\ CreateCampaign(c, "text")
       /\ UNCHANGED <<queues, tasks, driver, streams, loop, log, responses, call>>

BusUpdateStage ==
    \E c \in CampaignIds :
       /\ Published(CampaignIds) < MaxUpdates
       /\ LET k == Len(log[c]) + 1
              sm == update_stage(SM, c, BusStage(k), BusStatus(k), "") IN
             /\ campaigns' = sm.campaigns
             /\ tasks' = sm.tasks
             /\ log' = sm.log
       /\ UNCHANGED <<event_queues, queues, driver, streams, loop, responses, call>>

\* one update_state(c, s) call
UpdateStateCall(c, s) ==
    /\ LET sm == update_state(SM, c, s) IN campaigns' = sm.campaigns
    /\ UNCHANGED <<event_queues, queues, tasks, driver, streams, loop, log, responses, call>>

BusUpdateState ==
    \E c \in CampaignIds, s \in BusSnapshots : UpdateStateCall(c, s)

BusSubscribe ==
    \E c \in CampaignIds, h \in 1..MaxHandles :
       /\ Subscribe(c, h)
       /\ UNCHANGED <<campaigns, tasks, driver, streams, loop, log, responses, call>>

\* one unsubscribe(c, h) call
UnsubscribeCall(c, h) ==
    /\ Unsubscribe(c, h)
    /\ UNCHANGED <<campaigns, queues, tasks, driver, streams, loop, log, responses, call>>

BusUnsubscribe ==
    \E c \in CampaignIds, h \in DOMAIN queues : UnsubscribeCall(c, h)

\* the event bus: publishers and subscribers of two campaigns
NextBus ==
    \/ BusCreate
    \/ BusUpdateStage
    \/ BusSubscribe
    \/ BusUnsubscribe
    \/ RunBroadcast

SpecBus == Init /\ [][NextBus]_vars

\* the registry: the record-changing calls
NextReg ==
    \/ BusCreate
    \/ BusUpdateStage
    \/ BusUpdateState
    \/ RunBroadcast

SpecReg == Init /\ [][NextReg]_vars

\* ------------------------------------------------- the graph (its stream)
DraftNodes == {"draft_email", "draft_sms", "draft_linkedin", "draft_instagram"}

\* The order in which the nodes of one stream event are handled.
NodeOrder ==
    <<"ingestion", "persona", "draft_email", "draft_sms", "draft_linkedin",
      "draft_instagram", "scoring", "approval", "execution", "persistence">>

\* The stream events graph.astream can yield next, as sets of node names, when
\* the nodes in `emitted` have been yielded: the stages run in pipeline order,
\* the four draft nodes in any order and grouping.
GraphNext(emitted) ==
    IF "ingestion" \notin emitted THEN {{"ingestion"}}
    ELSE IF "persona" \notin emitted THEN {{"persona"}}
    ELSE IF ~(DraftNodes \subseteq emitted)
         THEN (SUBSET (DraftNodes \ emitted)) \ {{}}
    ELSE IF "scoring" \notin emitted THEN {{"scoring"}}
    ELSE IF "approval" \notin emitted THEN {{"approval"}}
    ELSE IF "execution" \notin emitted THEN {{"execution"}}
    ELSE IF "persistence" \notin emitted THEN {{"persistence"}}
    ELSE {}

\* The status a node's state may carry (the run statuses named in
\* db/models.py, and "persisted", which the driver looks for).
NodeStatusValues(node_name) ==
    CASE node_name = "ingestion" -> {"pending"}
      [] node_name = "persona" -> {"persona_done"}
      [] node_name \in DraftNodes -> {"drafts_done"}
      [] node_name = "scoring" -> {"scored"}
      [] node_name = "approval" -> {"approved"}
      [] node_name = "execution" -> {"executed"}
      [] node_name = "persistence" -> {"persisted", "failed"}

\* The drafts a node's state may carry: none before the draft nodes have run,
\* the drafts made afterwards; at the approval node the list may also be
\* empty or missing.
NodeDraftValues(node_name) ==
    IF node_name \in {"ingestion", "persona"} THEN {}
    ELSE IF node_name = "approval" THEN {<<>>, <<"email">>}
    ELSE {<<"email">>}

\* What a node hands back: a state dict with or without a status, with or
\* without drafts.
NodeStates(node_name) ==
    (IF node_name \in {"ingestion", "persona", "approval"}
     THEN {EmptyDict} \cup {[status |-> st] : st \in NodeStatusValues(node_name)}
     ELSE {})
    \cup {[drafts |-> d] : d \in NodeDraftValues(node_name)}
    \cup {[status |-> st, drafts |-> d] :
             st \in NodeStatusValues(node_name), d \in NodeDraftValues(node_name)}

\* str(exc) of the exception a worker raises
ErrorTexts == {"", "boom"}

\* ------------------------------------------------- run_campaign_workflow
stage_map(node_name) ==
    CASE node_name = "ingestion" -> "ingestion"
      [] node_name = "persona" -> "persona"
      [] node_name = "draft_email" -> "drafting"
      [] node_name = "draft_sms" -> "drafting"
      [] node_name = "draft_linkedin" -> "drafting"
      [] node_name = "draft_instagram" -> "drafting"
      [] node_name = "scoring" -> "scoring"
      [] node_name = "approval" -> "approval"
      [] node_name = "execution" -> "execution"
      [] node_name = "persistence" -> "persistence"
      [] OTHER -> node_name

\* f"Processing {stage}..."
ProcessingMsg(stage) ==
    CASE stage = "ingestion" -> "Processing ingestion..."
      [] stage = "persona" -> "Processing persona..."
      [] stage = "scoring" -> "Processing scoring..."
      [] stage = "approval" -> "Processing approval..."
      [] stage = "execution" -> "Processing execution..."
      [] stage = "persistence" -> "Processing persistence..."
      [] OTHER -> "Processing ..."

\* f"{stage.capitalize()} completed"
CompletedMsg(stage) ==
    CASE stage = "ingestion" -> "Ingestion completed"
      [] stage = "persona" -> "Persona completed"
      [] stage = "drafting" -> "Drafting completed"
      [] stage = "scoring" -> "Scoring completed"
      [] stage = "approval" -> "Approval completed"
      [] stage = "execution" -> "Execution completed"
      [] stage = "persistence" -> "Persistence completed"
      [] OTHER -> " completed"

\* Python truthiness of node_state.get("drafts")
HasDrafts(node_state) == "drafts" \in DOMAIN node_state /\ node_state["drafts"] # <<>>

\* The running update that precedes update_state for one node: drafting is
\* reported once, every other stage each time.
MarkRunning(r, campaign_id, stage) ==
    IF stage = "drafting"
    THEN IF ~r.current_drafting
         THEN [r EXCEPT
                 !.sm = update_stage(@, campaign_id, "drafting", "running",
                           "Generating personalized drafts for all channels..."),
                 !.current_drafting = TRUE]
         ELSE r
    ELSE [r EXCEPT
            !.sm = update_stage(@, campaign_id, stage, "running", ProcessingMsg(stage)),
            !.current_drafting = FALSE]

\* The completed update at the end of the loop body.
MarkCompleted(r, campaign_id, stage, event) ==
    IF stage # "drafting" \/ (stage = "drafting" /\ "draft_instagram" \in event)
    THEN [r EXCEPT
            !.sm = update_stage(@, campaign_id, stage, "completed", CompletedMsg(stage))]
    ELSE r

\* The loop body for one (node_name, node_state) item of a stream event.
\* r = [sm, current_drafting, returned]; returned: the function returned at
\* the approval interrupt.
HandleNode(r, campaign_id, node_name, node_state, event) ==
    LET stage == stage_map(node_name)
        r1 == MarkRunning(r, campaign_id, stage)
        r2 == [r1 EXCEPT !.sm = update_state(@, campaign_id, node_state)]
    IN IF node_name = "approval" /\ HasDrafts(node_state)
       THEN [r2 EXCEPT
               !.sm = update_stage(@, campaign_id, "approval", "waiting",
                         "Waiting for user approval..."),
               !.returned = TRUE]
       ELSE MarkCompleted(r2, campaign_id, stage, event)

\* for node_name, node_state in event.items(), from the i-th node of NodeOrder on
RECURSIVE HandleEvent(_, _, _, _, _)
HandleEvent(r, campaign_id, event, node_state, i) ==
    IF i > Len(NodeOrder) \/ r.returned THEN r
    ELSE IF NodeOrder[i] \in event
         THEN HandleEvent(HandleNode(r, campaign_id, NodeOrder[i], node_state, event),
                          campaign_id, event, node_state, i + 1)
         ELSE HandleEvent(r, campaign_id, event, node_state, i + 1)

\* The code after the stream is exhausted.
FinalUpdate(sm, campaign_id) ==
    IF campaign_id \in DOMAIN sm.campaigns
    THEN IF Get(sm.campaigns[campaign_id].state, "status", "none") = "persisted"
         THEN [update_stage(sm, campaign_id, "persistence", "completed",
                            "Campaign completed successfully")
                 EXCEPT !.campaigns[campaign_id].status = "completed"]
         ELSE sm
    ELSE sm

\* the except block without the campaign["status"] assignment
FailureHandlerNoStatus(sm, campaign_id, text) ==
    [update_stage(sm, campaign_id, sm.campaigns[campaign_id].current_stage, "failed", text)
       EXCEPT !.campaigns[campaign_id] = Put(@, "error", text)]

\* The except block, for a campaign the registry holds.
FailureHandler(sm, campaign_id, text) ==
    [update_stage(sm, campaign_id, sm.campaigns[campaign_id].current_stage, "failed", text)
       EXCEPT !.campaigns[campaign_id] =
                 Put(Put(@, "status", "failed"), "error", text)]

SetSM(sm) ==
    /\ campaigns' = sm.campaigns
    /\ tasks' = sm.tasks
    /\ log' = sm.log

\* --------------------------------------------------------- the API process
MaxPending == 1

\* The decision lists an approval request can carry.
ApprovedLists == {<<>>, <<"email">>}
RegenLists == {<<>>, <<"sms">>}

\* POST /campaigns: create_campaign, and run_campaign_workflow as a background task
ApiCreateCampaign(c) ==
    /\ CreateCampaign(c, "text")
    /\ driver' = Put(driver, c, [pc |-> "streaming", emitted |-> {},
                                 current_drafting |-> FALSE])
    /\ UNCHANGED <<queues, tasks, streams, loop, log, responses, call>>

\* The loop body of "async for event in graph.astream(...)" for one stream
\* event: its nodes are handled in turn.
DriverHandle(c, event) ==
    \E node_state \in NodeStates(CHOOSE n \in event : TRUE) :
       LET r == HandleEvent([sm |-> SM,
                             current_drafting |-> driver[c].current_drafting,
                             returned |-> FALSE],
                            c, event, node_state, 1)
       IN /\ SetSM(r.sm)
          /\ driver' = [driver EXCEPT
                           ![c].emitted = @ \cup event,
                           ![c].current_drafting = r.current_drafting,
                           ![c].pc = IF r.returned THEN "suspended" ELSE "streaming"]

\* One iteration of "async for event in graph.astream(...)": the stream yields
\* an event and the loop body handles its nodes.
DriverEvent(c) ==
    /\ c \in DOMAIN driver
    /\ driver[c].pc = "streaming"
    /\ Len(tasks) <= MaxPending
    /\ \E event \in GraphNext(driver[c].emitted) : DriverHandle(c, event)
    /\ UNCHANGED <<event_queues, queues, streams, loop, responses, call>>

\* The stream is exhausted: the final update, and the function returns.
DriverExhausted(c) ==
    /\ c \in DOMAIN driver
    /\ driver[c].pc = "streaming"
    /\ GraphNext(driver[c].emitted) = {}
    /\ Len(tasks) <= MaxPending
    /\ SetSM(FinalUpdate(SM, c))
    /\ driver' = [driver EXCEPT ![c].pc = "done"]
    /\ UNCHANGED <<event_queues, queues, streams, loop, responses, call>>

\* The except block runs and the function returns (it raises in turn when the
\* registry does not hold the campaign).
DriverFail(c) ==
    \E text \in ErrorTexts :
       IF c \in DOMAIN campaigns
       THEN /\ SetSM(FailureHandler(SM, c, text))
            /\ driver' = [driver EXCEPT ![c].pc = "failed"]
       ELSE /\ UNCHANGED <<campaigns, tasks, log>>
            /\ driver' = [driver EXCEPT ![c].pc = "crashed"]

\* The worker of the next node raises (or build_graph does, before the first
\* node): the except block runs and the function returns.
DriverRaise(c) ==
    /\ c \in DOMAIN driver
    /\ driver[c].pc = "streaming"
    /\ GraphNext(driver[c].emitted) # {}
    /\ Len(tasks) <= MaxPending
    /\ DriverFail(c)
    /\ UNCHANGED <<event_queues, queues, streams, loop, responses, call>>

\* approve_drafts on a campaign the registry holds (404 otherwise)
ApproveDrafts(c, approved, regen) ==
    /\ c \in DOMAIN campaigns
    /\ LET state == Get(campaigns[c], "state", EmptyDict)
           s1 == Put(state, "approved_channels", approved)
           s2 == Put(s1, "regen_channels", regen)
           s3 == Put(s2, "__resume__", [approved |-> approved, regen |-> regen])
       IN campaigns' = update_state(SM, c, s3).campaigns
    /\ UNCHANGED <<event_queues, queues, tasks, driver, streams, loop, log>>

\* The stream's generator starts on a campaign the registry holds: it
\* subscribes and yields the campaign snapshot.
SseSubscribe(c, h) ==
    /\ c \in DOMAIN campaigns
    /\ Subscribe(c, h)
    /\ streams' = Put(streams, h, [cid |-> c, pc |-> "open"])
    /\ UNCHANGED <<campaigns, tasks, driver, loop, log>>

\* GET /campaigns/{id}/stream on a campaign the registry holds: the generator
\* subscribes and yields the campaign snapshot.  One observer per campaign is
\* followed.
SseOpen(c, h) ==
    /\ \A g \in DOMAIN streams : streams[g].cid # c
    /\ SseSubscribe(c, h)

\* The generator's finally block: the queue is unsubscribed, and dropped with
\* what it held when the generator is gone.
SseFinally(h) ==
    /\ Unsubscribe(streams[h].cid, h)
    /\ queues' = [queues EXCEPT ![h].received = <<>>, ![h].taken = 0, ![h].subAt = 0]

\* The client goes away while the generator waits (in queue.get() or at a
\* yield).
SseDisconnect(h) ==
    /\ h \in DOMAIN streams
    /\ streams[h].pc \in {"open", "yielded"}
    /\ SseFinally(h)
    /\ streams' = [streams EXCEPT ![h].pc = "closed"]
    /\ UNCHANGED <<campaigns, tasks, driver, loop, log, responses, call>>

\* queue.get() returns the oldest event of the queue and the generator yields
\* it to the client.  last (history): the event yielded last.
SseGet(h) ==
    /\ h \in DOMAIN streams
    /\ streams[h].pc = "open"
    /\ queues[h].taken < Len(queues[h].received)
    /\ queues' = [queues EXCEPT ![h].taken = @ + 1]
    /\ streams' = [streams EXCEPT
                     ![h] = Put(Put(@, "pc", "yielded"),
                                "last", queues[h].received[queues[h].taken + 1])]
    /\ UNCHANGED <<campaigns, event_queues, tasks, driver, loop, log, responses, call>>

\* the test after the yield: the event is a completed or failed stage_update
\* and the campaign's status is completed or failed
StreamEnds(event, c) ==
    /\ Get(event, "type", "none") = "stage_update"
    /\ Get(event, "status", "none") \in {"completed", "failed"}
    /\ c \in DOMAIN campaigns
    /\ Get(campaigns[c], "status", "none") \in {"completed", "failed"}

\* The client has taken the event: the generator goes on, and either leaves
\* the loop (the finally block runs and the stream ends) or waits for the
\* next event.
SseCheck(h) ==
    /\ h \in DOMAIN streams
    /\ streams[h].pc = "yielded"
    /\ IF StreamEnds(streams[h].last, streams[h].cid)
       THEN /\ SseFinally(h)
            /\ streams' = [streams EXCEPT ![h].pc = "ended"]
       ELSE /\ streams' = [streams EXCEPT ![h].pc = "open"]
            /\ UNCHANGED <<event_queues, queues>>
    /\ UNCHANGED <<campaigns, tasks, driver, loop, log, responses, call>>

ApiCampaigns == {"c1"}

NextApi ==
    \/ \E c \in ApiCampaigns : ApiCreateCampaign(c)
    \/ \E c \in ApiCampaigns : DriverEvent(c)
    \/ \E c \in ApiCampaigns : DriverExhausted(c)
    \/ \E c \in ApiCampaigns : DriverRaise(c)
    \/ \E c \in ApiCampaigns, a \in ApprovedLists, g \in RegenLists :
          ApproveDrafts(c, a, g) /\ UNCHANGED <<responses, call>>
    \/ \E c \in ApiCampaigns, h \in 1..MaxHandles : SseOpen(c, h) /\ UNCHANGED <<responses, call>>
    \/ \E h \in DOMAIN streams : SseDisconnect(h)
    \/ RunBroadcast

SpecApi == Init /\ [][NextApi]_vars

\* The API process without observers.  The event loop runs every task that is
\* ready: the workflow tasks and the broadcast tasks; requests come as they may.
NextResume ==
    \/ \E c \in ApiCampaigns : ApiCreateCampaign(c)
    \/ \E c \in ApiCampaigns : DriverEvent(c)
    \/ \E c \in ApiCampaigns : DriverExhausted(c)
    \/ \E c \in ApiCampaigns : DriverRaise(c)
    \/ \E c \in ApiCampaigns, a \in ApprovedLists, g \in RegenLists :
          ApproveDrafts(c, a, g) /\ UNCHANGED <<responses, call>>
    \/ RunBroadcast

SpecResume ==
    /\ Init
    /\ [][NextResume]_vars
    /\ WF_vars(RunBroadcast)
    /\ \A c \in ApiCampaigns : WF_vars(DriverEvent(c) \/ DriverExhausted(c))

\* The driver with the workers in view: while the driver waits for the next
\* stream event, the graph runs the workers of the event's nodes; the event is
\* yielded, with the nodes' states, when they have returned.
DriverAwait(c) ==
    /\ c \in DOMAIN driver
    /\ driver[c].pc = "streaming"
    /\ Len(tasks) <= MaxPending
    /\ \E event \in GraphNext(driver[c].emitted) :
          driver' = [driver EXCEPT ![c] = Put(Put(@, "pc", "working"), "working", event)]
    /\ UNCHANGED <<campaigns, event_queues, queues, tasks, streams, loop, log, responses, call>>

\* The workers have returned: the stream yields the event and the loop body
\* handles it.
DriverResume(c) ==
    /\ c \in DOMAIN driver
    /\ driver[c].pc = "working"
    /\ DriverHandle(c, driver[c].working)
    /\ UNCHANGED <<event_queues, queues, streams, loop, responses, call>>

\* A worker raises while it executes: the except block runs.
WorkerRaise(c) ==
    /\ c \in DOMAIN driver
    /\ driver[c].pc = "working"
    /\ DriverFail(c)
    /\ UNCHANGED <<event_queues, queues, streams, loop, responses, call>>

NextRun ==
    \/ \E c \in ApiCampaigns : ApiCreateCampaign(c)
    \/ \E c \in ApiCampaigns : DriverAwait(c)
    \/ \E c \in ApiCampaigns : DriverResume(c)
    \/ \E c \in ApiCampaigns : WorkerRaise(c)
    \/ \E c \in ApiCampaigns : DriverExhausted(c)
    \/ RunBroadcast

SpecRun == Init /\ [][NextRun]_vars

\* subscribe, one observer per campaign being followed
TwoSubscribe ==
    \E c \in CampaignIds, h \in 1..MaxHandles :
       /\ \A g \in DOMAIN queues : queues[g].cid # c
       /\ Subscribe(c, h)
       /\ UNCHANGED <<campaigns, tasks, driver, streams, loop, log, responses, call>>

\* Two campaigns' runs side by side, each with an observer that comes and
\* goes; the runs are followed for MaxUpdates published events.
NextTwo ==
    \/ \E c \in CampaignIds : ApiCreateCampaign(c)
    \/ \E c \in CampaignIds : Published(CampaignIds) < MaxUpdates /\ DriverEvent(c)
    \/ \E c \in CampaignIds : Published(CampaignIds) < MaxUpdates /\ DriverRaise(c)
    \/ TwoSubscribe
    \/ BusUnsubscribe
    \/ RunBroadcast

SpecTwo == Init /\ [][NextTwo]_vars

\* A campaign's run with its observers reading their streams; the run is
\* followed for MaxUpdates published events.
NextSse ==
    \/ \E c \in ApiCampaigns : ApiCreateCampaign(c)
    \/ \E c \in ApiCampaigns : Published(CampaignIds) < MaxUpdates /\ DriverEvent(c)
    \/ \E c \in ApiCampaigns : Published(CampaignIds) < MaxUpdates /\ DriverRaise(c)
    \/ \E c \in ApiCampaigns, h \in 1..MaxHandles : SseSubscribe(c, h) /\ UNCHANGED <<responses, call>>
    \/ \E h \in DOMAIN streams : SseGet(h)
    \/ \E h \in DOMAIN streams : SseCheck(h)
    \/ \E h \in DOMAIN streams : SseDisconnect(h)
    \/ RunBroadcast

SpecSse == Init /\ [][NextSse]_vars

\* ------------------------------------------------ the API's request handlers
\* the response of a request is recorded
Respond(op, c, code) == responses' = responses \cup {[op |-> op, cid |-> c, code |-> code]}

\* GET /campaigns/{id}: 404 for an id the registry does not hold, the
\* campaign's status and drafts otherwise.
GetCampaign(c) ==
    /\ Respond("get", c, IF c \notin DOMAIN campaigns THEN 404 ELSE 200)
    /\ UNCHANGED <<campaigns, event_queues, queues, tasks, driver, streams, loop, log, call>>

\* the stream handler without the lookup: the generator subscribes at once
StreamUnchecked(c, h) ==
    /\ Subscribe(c, h)
    /\ streams' = Put(streams, h, [cid |-> c, pc |-> "open"])
    /\ Respond("stream", c, 200)
    /\ UNCHANGED <<campaigns, tasks, driver, loop, log, call>>

\* GET /campaigns/{id}/stream: 404 for an id the registry does not hold;
\* otherwise the streaming response, whose generator subscribes.
StreamCampaignUpdates(c, h) ==
    IF c \notin DOMAIN campaigns
    THEN /\ Respond("stream", c, 404)
         /\ UNCHANGED <<campaigns, event_queues, queues, tasks, driver, streams, loop, log, call>>
    ELSE /\ SseOpen(c, h)
         /\ Respond("stream", c, 200)
         /\ UNCHANGED call

\* POST /campaigns/{id}/approve: 404 for an id the registry does not hold;
\* otherwise the decision is stored.
ApproveDraftsRequest(c, approved, regen) ==
    IF c \notin DOMAIN campaigns
    THEN /\ Respond("approve", c, 404)
         /\ UNCHANGED <<campaigns, event_queues, queues, tasks, driver, streams, loop, log, call>>
    ELSE /\ ApproveDrafts(c, approved, regen)
         /\ Respond("approve", c, 200)
         /\ UNCHANGED call

\* a campaign is registered (by POST /campaigns; its workflow is not followed)
RegistryCreate ==
    \E c \in ApiCampaigns :
       /\ CreateCampaign(c, "text")
       /\ UNCHANGED <<queues, tasks, driver, streams, loop, log, responses, call>>

\* The API's requests on ids the registry holds or not, beside a publisher.
NextNotFound ==
    \/ RegistryCreate
    \/ \E c \in CampaignIds : GetCampaign(c)
    \/ \E c \in CampaignIds, h \in 1..MaxHandles : StreamCampaignUpdates(c, h)
    \/ \E c \in CampaignIds, a \in ApprovedLists, g \in RegenLists :
          ApproveDraftsRequest(c, a, g)
    \/ \E h \in DOMAIN streams : SseDisconnect(h)
    \/ BusUpdateStage
    \/ RunBroadcast

SpecNotFound == Init /\ [][NextNotFound]_vars

\* Subscribers coming and going on two campaign ids, one of them registered
\* and published to.
NextUnsub ==
    \/ RegistryCreate
    \/ BusUpdateStage
    \/ BusSubscribe
    \/ BusUnsubscribe
    \/ RunBroadcast

SpecUnsub == Init /\ [][NextUnsub]_vars

\* run_campaign_workflow called with a campaign id the registry does not hold.
OrphanStart(c) ==
    /\ c \notin DOMAIN campaigns
    /\ c \notin DOMAIN driver
    /\ driver' = Put(driver, c, [pc |-> "streaming", emitted |-> {},
                                 current_drafting |-> FALSE])
    /\ UNCHANGED <<campaigns, event_queues, queues, tasks, streams, loop, log, responses, call>>

\* The registry and the bus with a publisher, subscribers, and workflow runs
\* on ids that were never registered.
NextUnknown ==
    \/ RegistryCreate
    \/ BusUpdateStage
    \/ BusSubscribe
    \/ \E c \in CampaignIds \ ApiCampaigns : OrphanStart(c)
    \/ \E c \in CampaignIds \ ApiCampaigns : DriverEvent(c)
    \/ \E c \in CampaignIds \ ApiCampaigns : DriverExhausted(c)
    \/ \E c \in CampaignIds \ ApiCampaigns : DriverRaise(c)
    \/ RunBroadcast

SpecUnknown == Init /\ [][NextUnknown]_vars

\* ------------------------------------------------ run_approval_loop (CLI)
MAX_REGEN == 3

\* the channels of the four draft nodes, in the order main() runs them
Channels == <<"email", "sms", "linkedin", "instagram">>
ChannelSet == Range(Channels)

None == "<None>"

\* a list of channels as the operator types them (kept in channel order)
RECURSIVE ListOf(_, _)
ListOf(set, i) ==
    IF i > Len(Channels) THEN <<>>
    ELSE (IF Channels[i] \in set THEN <<Channels[i]>> ELSE <<>>) \o ListOf(set, i + 1)

\* What a draft worker produces for a channel: a fresh draft, neither scored,
\* approved nor sent.  The body is named by its generation.
NewDraft(channel, generation) ==
    [channel |-> channel,
     subject |-> IF channel = "email" THEN "subject" ELSE None,
     body |-> <<channel, generation>>,
     score |-> None,
     approved |-> FALSE,
     sent |-> FALSE]

\* _generate_draft(channel, state): the draft that replaces the channel's draft d
GenerateDraft(d) == NewDraft(d.channel, d.body[2] + 1)

\* scoring_node: every draft gets a score
ScoringNode(drafts) == [i \in DOMAIN drafts |-> [drafts[i] EXCEPT !.score = "scored"]]

\* execution_node: the approved drafts are sent; a send may fail, which is
\* reported per channel.
ExecutionNode(drafts, failing) ==
    [i \in DOMAIN drafts |->
        [drafts[i] EXCEPT !.sent = drafts[i].approved /\ drafts[i].channel \notin failing]]

\* the bound of a loop that allows one more round
MaxRegenOneMore == MAX_REGEN + 1

\* the bound the loop compares regen_round with
MaxRegen == MAX_REGEN

\* a marking that approves every draft as soon as the list names any channel
MarkApprovedAny(drafts, approved) ==
    [i \in DOMAIN drafts |-> [drafts[i] EXCEPT !.approved = (approved # {})]]

\* a marking that keeps the approvals the drafts already have
MarkApprovedSticky(drafts, approved) ==
    [i \in DOMAIN drafts |->
        [drafts[i] EXCEPT !.approved = (@ \/ drafts[i].channel \in approved)]]

\* "Mark approved": every draft's flag is whether its channel is in the list
MarkApproved(drafts, approved) ==
    [i \in DOMAIN drafts |->
        [drafts[i] EXCEPT !.approved = (drafts[i].channel \in approved)]]

\* a regeneration that replaces every draft
RegenerateAll(drafts, regen) ==
    [i \in DOMAIN drafts |-> GenerateDraft(drafts[i])]

\* the regeneration of the drafts whose channel is in regen
Regenerate(drafts, regen) ==
    [i \in DOMAIN drafts |->
        IF drafts[i].channel \in regen THEN GenerateDraft(drafts[i]) ELSE drafts[i]]

\* main() has run ingestion, persona and the four draft nodes, and calls
\* run_approval_loop.
LoopStart ==
    /\ loop.pc = "idle"
    /\ loop' = [pc |-> "score",
                drafts |-> [i \in 1..Len(Channels) |-> NewDraft(Channels[i], 1)],
                approved_channels |-> <<>>,
                regen |-> <<>>,
                regen_round |-> 0,
                regenerated |-> 0,
                scorings |-> 0,
                status |-> None]
    /\ UNCHANGED <<campaigns, event_queues, queues, tasks, driver, streams, log, responses, call>>

\* the top of the while loop: scoring_node, then the drafts are shown
LoopScore ==
    /\ loop.pc = "score"
    /\ loop' = [loop EXCEPT !.pc = "prompt",
                             !.drafts = ScoringNode(@),
                             !.scorings = @ + 1]
    /\ UNCHANGED <<campaigns, event_queues, queues, tasks, driver, streams, log, responses, call>>

\* the decision handled without the bound on the rounds: every regen request
\* loops back to scoring
LoopDecideUnbounded(approved, regen) ==
    /\ loop.pc = "prompt"
    /\ LET marked == MarkApproved(loop.drafts, Range(approved))
           again == regen # <<>>
       IN loop' = [loop EXCEPT
                     !.drafts = IF again THEN Regenerate(marked, Range(regen)) ELSE marked,
                     !.approved_channels = approved,
                     !.regen = regen,
                     !.regen_round = IF again THEN @ + 1 ELSE @,
                     !.regenerated = IF again THEN @ + 1 ELSE @,
                     !.pc = IF again THEN "score" ELSE "execute"]
    /\ UNCHANGED <<campaigns, event_queues, queues, tasks, driver, streams, log, responses, call>>

\* The operator's decision is read and handled: the drafts are marked, and
\* either a regeneration round loops back to scoring or the loop is left.
\* regenerated (history) counts the rounds in which drafts were regenerated.
LoopDecide(approved, regen) ==
    /\ loop.pc = "prompt"
    /\ LET marked == MarkApproved(loop.drafts, Range(approved))
           round == IF regen # <<>> THEN loop.regen_round + 1 ELSE loop.regen_round
           again == regen # <<>> /\ ~(round > MaxRegen)
       IN loop' = [loop EXCEPT
                     !.drafts = IF again THEN Regenerate(marked, Range(regen)) ELSE marked,
                     !.approved_channels = approved,
                     !.regen = regen,
                     !.regen_round = round,
                     !.regenerated = IF again THEN @ + 1 ELSE @,
                     !.pc = IF again THEN "score" ELSE "execute"]
    /\ UNCHANGED <<campaigns, event_queues, queues, tasks, driver, streams, log, responses, call>>

LoopExecute(failing) ==
    /\ loop.pc = "execute"
    /\ loop' = [loop EXCEPT !.pc = "persist", !.drafts = ExecutionNode(@, failing)]
    /\ UNCHANGED <<campaigns, event_queues, queues, tasks, driver, streams, log, responses, call>>

LoopPersist ==
    /\ loop.pc = "persist"
    /\ loop' = [loop EXCEPT !.pc = "done", !.status = "persisted"]
    /\ UNCHANGED <<campaigns, event_queues, queues, tasks, driver, streams, log, responses, call>>

\* the lists a decision can carry: at most MaxListed channels each
DecisionLists == {ListOf(set, 1) : set \in {x \in SUBSET ChannelSet : Cardinality(x) <= MaxListed}}

NextLoop ==
    \/ LoopStart
    \/ LoopScore
    \/ \E a \in DecisionLists, g \in DecisionLists : LoopDecide(a, g)
    \/ \E failing \in {{}, {"email"}} : LoopExecute(failing)
    \/ LoopPersist

SpecLoop == Init /\ [][NextLoop]_vars

\* ===================================================================== claims
\* The successive statuses written for `stage`: the statuses of its events.
RECURSIVE StatusesOf(_, _)
StatusesOf(events, stage) ==
    IF events = <<>> THEN <<>>
    ELSE (IF Head(events).stage = stage THEN <<Head(events).status>> ELSE <<>>)
         \o StatusesOf(Tail(events), stage)

Rank(status) ==
    CASE status = "pending" -> 0
      [] status = "running" -> 1
      [] OTHER -> 2

Forward(prev, next) ==
    /\ Rank(prev) <= Rank(next)
    /\ next # "pending"
    /\ ~(prev = "completed" /\ next = "failed")

\* C1 (as claimed): for every campaign and stage, the successive statuses
\* written to the stage table move forward along pending -> running ->
\* {completed | failed | waiting}: never back to pending, and never from
\* completed to running or failed.
C1_StagesMoveForward ==
    \A c \in DOMAIN campaigns, stage \in StageNames :
       LET written == <<"pending">> \o StatusesOf(log[c], stage) IN
          \A i \in 1..(Len(written) - 1) : Forward(written[i], written[i + 1])

\* C4 (as claimed): when a worker raises, the campaign's status becomes failed,
\* its error is a non-empty message, and no stage is written afterwards.
C4_FailureNonEmptyError ==
    [][\A c \in DOMAIN driver :
          /\ (driver[c].pc = "streaming" /\ driver'[c].pc = "failed") =>
                /\ campaigns'[c].status = "failed"
                /\ "error" \in DOMAIN campaigns'[c]
                /\ campaigns'[c]["error"] # ""
          /\ driver[c].pc = "failed" =>
                /\ log'[c] = log[c]
                /\ campaigns'[c].stages = campaigns[c].stages]_vars

\* C4 (amended): when a worker raises, the campaign's status becomes failed,
\* its error is the exception's text (the message of the failed event, empty
\* when the exception has no text), and no stage is written afterwards.
C4_FailureRecorded ==
    [][\A c \in DOMAIN driver :
          /\ (driver[c].pc = "streaming" /\ driver'[c].pc = "failed") =>
                /\ campaigns'[c].status = "failed"
                /\ "error" \in DOMAIN campaigns'[c]
                /\ Len(log'[c]) = Len(log[c]) + 1
                /\ log'[c][Len(log'[c])].status = "failed"
                /\ campaigns'[c]["error"] = log'[c][Len(log'[c])].message
          /\ driver[c].pc = "failed" =>
                /\ log'[c] = log[c]
                /\ campaigns'[c].stages = campaigns[c].stages]_vars

\* C4 witness: the persona worker has raised "boom" after ingestion: the
\* campaign is failed with that error, and the broadcast tasks have run.
C4_Witness ==
    \E c \in DOMAIN driver :
       /\ driver[c].pc = "failed"
       /\ driver[c].emitted = {"ingestion"}
       /\ campaigns[c].status = "failed"
       /\ campaigns[c]["error"] = "boom"
       /\ tasks = <<>>

Bodies(drafts) == [i \in DOMAIN drafts |-> drafts[i].body]

\* C2: drafts are regenerated in at most MAX_REGEN rounds of one run, and the
\* decision with a non-empty regen list that follows MAX_REGEN regeneration
\* rounds regenerates nothing: the loop goes on to execution with the bodies
\* it had.
C2_RegenBounded ==
    [][loop.pc = "prompt" =>
          /\ loop'.regenerated <= MAX_REGEN
          /\ (loop'.regen # <<>> /\ loop.regen_round = MAX_REGEN) =>
                /\ loop'.pc = "execute"
                /\ loop'.regenerated = loop.regenerated
                /\ Bodies(loop'.drafts) = Bodies(loop.drafts)]_vars

\* C2 witness: the fourth decision with a regen list was dropped, after three
\* regeneration rounds.
C2_Witness ==
    /\ loop.pc = "execute"
    /\ loop.regen # <<>>
    /\ loop.regen_round = MAX_REGEN + 1
    /\ loop.regenerated = MAX_REGEN

\* C3 (as claimed): within one run, a draft that has approved = true and is not
\* replaced by a regenerated draft still has approved = true after every later
\* step.
C3_ApprovedMonotonic ==
    [][loop.pc # "idle" =>
          \A i \in DOMAIN loop.drafts :
             (loop.drafts[i].approved /\ loop'.drafts[i].body = loop.drafts[i].body)
             => loop'.drafts[i].approved]_vars

\* the stage table a subscriber rebuilds from the events it was sent
RECURSIVE Replay(_, _)
Replay(table, events) ==
    IF events = <<>> THEN table
    ELSE Replay(Put(table, Head(events).stage,
                    [status |-> Head(events).status, message |-> Head(events).message]),
                Tail(events))

\* the broadcast tasks of campaign c that have not run yet
Pending(c) == Cardinality({i \in 1..Len(tasks) : tasks[i].cid = c})

\* the number of update_stage calls of campaign c whose broadcast task has run
Broadcast(c) == Len(log[c]) - Pending(c)

Registered(h) ==
    /\ queues[h].cid \in DOMAIN event_queues
    /\ h \in Range(event_queues[queues[h].cid])

\* C5: for a queue subscribed before the campaign's first update_stage call and
\* still registered, whenever no broadcast task of the campaign is waiting,
\* replaying the events it was sent over the all-pending table gives the
\* registry's stage table (status and message of every stage).
C5_ReplayEqualsRegistry ==
    \A h \in DOMAIN queues :
       LET q == queues[h] IN
          (/\ Registered(h)
           /\ q.cid \in DOMAIN campaigns
           /\ q.subAt = 0
           /\ Pending(q.cid) = 0)
          => Replay(InitialStages, q.received) = campaigns[q.cid].stages

\* C5 witness: such a queue after the driver suspended at approval, all
\* broadcast tasks run.
C5_Witness ==
    \E h \in DOMAIN queues :
       LET q == queues[h] IN
          /\ Registered(h)
          /\ q.cid \in DOMAIN driver
          /\ q.subAt = 0
          /\ Pending(q.cid) = 0
          /\ driver[q.cid].pc = "suspended"
          /\ Len(q.received) >= 8
          /\ campaigns[q.cid].stages["approval"].status = "waiting"

\* C6: a queue that is registered for campaign c has received, once each and in
\* call order, the events of all update_stage(c, ...) calls made since it
\* subscribed whose broadcast task has run: what it received is the stretch of
\* c's events that ends with the last task run and starts no later than the
\* first call after the subscription.
C6_PerCampaignOrder ==
    \A h \in DOMAIN queues :
       Registered(h) =>
          LET q == queues[h]
              n == Broadcast(q.cid)
              m == Len(q.received)
          IN /\ m <= n
             /\ n - m <= q.subAt
             /\ q.received = SubSeq(log[q.cid], n - m + 1, n)

\* C6 witness: a registered queue has received two events of its campaign, in
\* order, while the other campaign published as well and another handle was
\* unsubscribed.
C6_Witness ==
    \E h \in DOMAIN queues, g \in DOMAIN queues, c2 \in CampaignIds :
       /\ Registered(h)
       /\ Len(queues[h].received) = 2
       /\ queues[h].received[1] # queues[h].received[2]
       /\ Pending(queues[h].cid) = 0
       /\ c2 # queues[h].cid
       /\ Len(log[c2]) > 0
       /\ g # h
       /\ ~Registered(g)

\* C7 (as claimed): a queue holds no event of an update_stage call that had
\* returned before the queue was subscribed: what it received starts with the
\* first call made after the subscription.
C7_OnlyLaterEvents ==
    \A h \in DOMAIN queues :
       LET q == queues[h] IN
          \A i \in 1..Len(q.received) :
             /\ q.subAt + i <= Len(log[q.cid])
             /\ q.received[i] = log[q.cid][q.subAt + i]

\* C8 (as claimed): update_state(c, s) on a known campaign stores s and takes the
\* status from s, leaving the status unchanged when s has no status field.
C8_StatusKept ==
    [][\A c \in DOMAIN campaigns, s \in BusSnapshots :
          UpdateStateCall(c, s) =>
             /\ campaigns'[c].state = s
             /\ campaigns'[c].status =
                   IF "status" \in DOMAIN s THEN s["status"] ELSE campaigns[c].status]_vars

\* C8 (amended): update_state(c, s) on a known campaign stores s and takes the
\* status from s; when s has no status field the status becomes "running".
C8_StatusDefaultsToRunning ==
    [][\A c \in DOMAIN campaigns, s \in BusSnapshots :
          UpdateStateCall(c, s) =>
             /\ campaigns'[c].state = s
             /\ campaigns'[c].status =
                   IF "status" \in DOMAIN s THEN s["status"] ELSE "running"]_vars

\* C8 witness: update_state has acted with a status-less snapshot on one
\* campaign (a created campaign has status "created") and with a snapshot that
\* has a status on another.
C8_Witness ==
    \E c \in DOMAIN campaigns, d \in DOMAIN campaigns :
       /\ campaigns[c].status = "running"
       /\ campaigns[c].state = EmptyDict
       /\ campaigns[d].status = "scored"
       /\ campaigns[d].state = [status |-> "scored"]

\* a decision has been stored by approve_drafts
DecisionSubmitted(c) == "__resume__" \in DOMAIN campaigns[c].state

\* C9 (as claimed): a campaign whose driver returned at the approval interrupt
\* and that has no decision yet has status waiting, and only such a campaign
\* has status waiting.
C9_SuspendedIsWaiting ==
    \A c \in DOMAIN driver :
       (driver[c].pc = "suspended" /\ ~DecisionSubmitted(c))
       <=> campaigns[c].status = "waiting"

ExecutionMarkedRunning(c) ==
    \E i \in 1..Len(log[c]) :
       log[c][i].stage = "execution" /\ log[c][i].status = "running"

\* C10 (as claimed): once a decision with an empty regen list is stored for a
\* campaign suspended at approval, the execution stage is eventually marked
\* running and the campaign's status reaches completed or failed.
C10_DecisionResumes ==
    \A c \in ApiCampaigns :
       (/\ c \in DOMAIN driver
        /\ driver[c].pc = "suspended"
        /\ DecisionSubmitted(c)
        /\ campaigns[c].state["regen_channels"] = <<>>)
       ~> (/\ ExecutionMarkedRunning(c)
           /\ campaigns[c].status \in {"completed", "failed"})

\* C11 (as claimed): when the stream of run_campaign_workflow is exhausted (no
\* worker raised, no suspension at approval), the campaign's status is
\* completed when the function returns, whatever status the last node's state
\* carried.
C11_ExhaustedIsCompleted ==
    [][\A c \in DOMAIN driver :
          (driver[c].pc = "streaming" /\ driver'[c].pc = "done")
          => campaigns'[c].status = "completed"]_vars

\* C12 (as claimed): once a campaign's status is completed or failed, no step
\* (update_stage, update_state, approve_drafts) gives it another status.
C12_TerminalStatusKept ==
    [][\A c \in DOMAIN campaigns :
          campaigns[c].status \in {"completed", "failed"}
          => campaigns'[c].status = campaigns[c].status]_vars

\* the number of times x occurs in the sequence s
CountOf(s, x) == Cardinality({i \in 1..Len(s) : s[i] = x})

\* C13 (as claimed): in whatever order and grouping the four draft nodes come
\* from the stream, the driver publishes drafting/running exactly once and
\* drafting/completed exactly once, and completed only when all four draft
\* nodes have been handled.
C13_DraftingReportedOnce ==
    \A c \in DOMAIN driver :
       LET written == StatusesOf(log[c], "drafting")
           handled == driver[c].emitted \cap DraftNodes
       IN /\ CountOf(written, "running") = (IF handled = {} THEN 0 ELSE 1)
          /\ CountOf(written, "completed") = (IF handled = DraftNodes THEN 1 ELSE 0)

\* the stage whose worker(s) the graph is running for campaign c
WorkingStage(c) == stage_map(CHOOSE n \in driver[c].working : TRUE)

\* C14 (as claimed): while the worker of a non-drafting stage executes, the
\* stage's registry status is running (written before the worker began, and
\* not yet completed): never still pending.
C14_RunningBeforeWorker ==
    \A c \in DOMAIN driver :
       (driver[c].pc = "working" /\ WorkingStage(c) # "drafting")
       => campaigns[c].stages[WorkingStage(c)].status = "running"

\* C15 (as claimed): when the worker of stage s raises, the failure handling
\* sets the stage-table entry of s to failed with the exception text as its
\* message, and changes (or adds) no other entry: the stage completed before
\* keeps status completed.
C15_FailedStageIsTheRaising ==
    [][\A c \in DOMAIN driver :
          (driver[c].pc = "working" /\ driver'[c].pc = "failed") =>
             LET s == WorkingStage(c)
                 before == campaigns[c].stages
                 after == campaigns'[c].stages
             IN /\ after[s].status = "failed"
                /\ after[s].message = campaigns'[c]["error"]
                /\ \A t \in (DOMAIN after) \ {s} :
                      t \in DOMAIN before /\ after[t] = before[t]]_vars

\* the step in which a decision is handled
Decided == loop.pc = "prompt" /\ loop'.pc # "prompt"

\* the channels the decision just handled lists as approved / for regeneration
ListedApproved == Range(loop'.approved_channels)
ListedRegen == Range(loop'.regen)

\* C16: in a regeneration round within the bound, the drafts whose channel is
\* in the regen list, and only they, are replaced by a newly generated draft;
\* every other draft leaves the regeneration as it entered it (channel,
\* subject, body, score, and the approved flag the decision's marking gave
\* it); the sequence keeps its length and its channel order.
C16_RegenReplacesListed ==
    [][(Decided /\ loop'.pc = "score") =>
          /\ Len(loop'.drafts) = Len(loop.drafts)
          /\ \A i \in DOMAIN loop.drafts :
                LET d == loop.drafts[i]
                    e == loop'.drafts[i]
                IN /\ e.channel = d.channel
                   /\ IF d.channel \in ListedRegen
                      THEN e.body # d.body /\ e.score = None
                      ELSE /\ e.subject = d.subject
                           /\ e.body = d.body
                           /\ e.score = d.score
                           /\ e.approved = (d.channel \in ListedApproved)]_vars

\* C16 witness: a first regeneration round has replaced the sms draft and left
\* the approved email draft and the unmentioned linkedin draft as they were.
C16_Witness ==
    /\ loop.pc = "score"
    /\ loop.regenerated = 1
    /\ loop.regen = <<"sms">>
    /\ loop.approved_channels = <<"email">>
    /\ loop.drafts[1].approved /\ loop.drafts[1].body = <<"email", 1>>
    /\ loop.drafts[2].body = <<"sms", 2>> /\ loop.drafts[2].score = None
    /\ loop.drafts[3].body = <<"linkedin", 1>> /\ loop.drafts[3].score = "scored"

\* C17 (as claimed): when a decision lists a channel in both approved and regen,
\* regen wins: after the decision the channel's draft is not approved and the
\* channel is not in approved_channels, in a regeneration round as in the
\* round whose regen request is dropped.
C17_RegenWins ==
    [][Decided =>
          \A ch \in ListedApproved \cap ListedRegen :
             /\ ch \notin Range(loop'.approved_channels)
             /\ \A i \in DOMAIN loop'.drafts :
                   loop'.drafts[i].channel = ch => ~loop'.drafts[i].approved]_vars

\* C18: a channel that a decision lists neither as approved nor for
\* regeneration keeps its draft body, and its approved flag is not set to true
\* by that decision.
C18_UnlistedUntouched ==
    [][Decided =>
          \A i \in DOMAIN loop.drafts :
             loop.drafts[i].channel \notin (ListedApproved \cup ListedRegen) =>
                /\ loop'.drafts[i].channel = loop.drafts[i].channel
                /\ loop'.drafts[i].body = loop.drafts[i].body
                /\ loop'.drafts[i].approved => loop.drafts[i].approved]_vars

\* C18 witness: the second decision approved sms and asked for linkedin again;
\* email, approved by the first decision, and instagram are in neither list
\* and are unapproved, with the bodies they had.
C18_Witness ==
    /\ loop.pc = "score"
    /\ loop.regenerated = 2
    /\ loop.approved_channels = <<"sms">>
    /\ loop.regen = <<"linkedin">>
    /\ loop.drafts[1].body = <<"email", 1>> /\ ~loop.drafts[1].approved
    /\ loop.drafts[2].approved
    /\ loop.drafts[3].body[2] > 1
    /\ loop.drafts[4].body = <<"instagram", 1>> /\ ~loop.drafts[4].approved

\* C19: the update_stage and update_state calls that a workflow run makes with
\* a campaign id the registry does not hold change nothing: no campaign
\* record, no queue, no pending broadcast and no published event changes, and
\* no registry entry appears.
C19_UnknownIdIsNoOp ==
    [][\A c \in (DOMAIN driver) \ (DOMAIN campaigns) :
          driver'[c] # driver[c] => UNCHANGED smVars]_vars

\* C19 witness: a run on the unknown id c2 has handled its nodes up to the
\* approval interrupt, with a queue subscribed to c2 all along and the known
\* campaign c1 publishing: c2 has no record, no event, and its queue is empty.
C19_Witness ==
    \E c \in DOMAIN driver, h \in DOMAIN queues, k \in DOMAIN campaigns :
       /\ c \notin DOMAIN campaigns
       /\ driver[c].pc = "suspended"
       /\ log[c] = <<>>
       /\ Registered(h) /\ queues[h].cid = c /\ queues[h].received = <<>>
       /\ Len(log[k]) > 0
       /\ campaigns[k].stages["ingestion"].status # "pending"
       /\ tasks = <<>>

\* no subscriber queue is registered under an id the registry does not hold
NoQueueForUnknown ==
    /\ DOMAIN event_queues \subseteq DOMAIN campaigns
    /\ \A h \in DOMAIN queues : queues[h].cid \in DOMAIN campaigns

\* C20: get_campaign, stream_campaign_updates and approve_drafts answer a
\* request on an id the registry does not hold with 404 and change neither
\* the registry nor the queue table; no queue is ever registered for such an
\* id.
C20_UnknownIdNotFound ==
    [][/\ \A r \in responses' \ responses :
             r.cid \notin DOMAIN campaigns =>
                /\ r.code = 404
                /\ UNCHANGED <<campaigns, event_queues, queues, tasks, streams, log>>
       /\ NoQueueForUnknown']_vars

\* C20 witness: the three operations have answered 404 for c2, which has no
\* record and no queue list, while c1 is registered, is streamed to an
\* observer and has a stored decision.
C20_Witness ==
    /\ "c2" \notin DOMAIN campaigns
    /\ "c2" \notin DOMAIN event_queues
    /\ \A op \in {"get", "stream", "approve"} :
          [op |-> op, cid |-> "c2", code |-> 404] \in responses
    /\ "c1" \in DOMAIN campaigns
    /\ DecisionSubmitted("c1")
    /\ \E h \in DOMAIN queues : Registered(h) /\ queues[h].cid = "c1"

\* the handles registered for campaign c, in list order
Handles(c) == Get(event_queues, c, <<>>)

\* C21: unsubscribe(c, h) takes h, and nothing else, off the list of campaign c
\* (the other handles stay, in order, and the other campaigns' lists are as
\* they were); when h is not on c's list or c has no list, nothing changes.
\* A handle that is not registered is put no event and stays unregistered.
C21_UnsubscribeRemovesOnlyH ==
    [][/\ \A c \in CampaignIds, h \in DOMAIN queues :
             UnsubscribeCall(c, h) =>
                IF h \in Range(Handles(c))
                THEN /\ h \notin Range(event_queues'[c])
                     /\ event_queues'[c] = SelectSeq(event_queues[c], LAMBDA g : g # h)
                     /\ \A d \in (DOMAIN event_queues) \ {c} :
                           event_queues'[d] = event_queues[d]
                ELSE UNCHANGED vars
       /\ \A h \in DOMAIN queues :
             ~Registered(h) =>
                /\ queues'[h].received = queues[h].received
                /\ ~Registered(h)']_vars

\* C21 witness: two handles subscribed to a campaign from its start; h was
\* unsubscribed after the first event, g was not and holds every event.
C21_Witness ==
    \E h \in DOMAIN queues, g \in DOMAIN queues :
       LET c == queues[h].cid IN
          /\ g # h
          /\ queues[g].cid = c
          /\ c \in DOMAIN campaigns
          /\ queues[h].subAt = 0 /\ queues[g].subAt = 0
          /\ ~Registered(h) /\ Registered(g)
          /\ Len(queues[h].received) = 1
          /\ Len(log[c]) >= 2
          /\ queues[g].received = log[c]
          /\ tasks = <<>>

\* all there is of campaign c: its record, its subscriber list, the queues
\* subscribed to it and its published events
Entry(c) ==
    [record |-> IF c \in DOMAIN campaigns THEN <<campaigns[c]>> ELSE <<>>,
     handles |-> IF c \in DOMAIN event_queues THEN <<event_queues[c]>> ELSE <<>>,
     queues |-> [h \in {g \in DOMAIN queues : queues[g].cid = c} |-> queues[h]],
     log |-> log[c]]

\* the step is an operation on campaign c: an update_stage (the failure
\* handler's too), an update_state, a subscribe or unsubscribe on c, or the
\* broadcast of one of c's events
OperationOn(c) ==
    \/ log'[c] # log[c]
    \/ (c \in DOMAIN campaigns /\ campaigns'[c] # campaigns[c])
    \/ Handles(c)' # Handles(c)
    \/ (tasks # <<>> /\ tasks' = Tail(tasks) /\ Head(tasks).cid = c)

\* C22: an operation on one campaign leaves every other campaign's record,
\* subscriber list and subscriber queues as they were, and puts no event on
\* them.
C22_CampaignsIndependent ==
    [][\A c \in CampaignIds, d \in CampaignIds :
          (c # d /\ OperationOn(c)) => Entry(d)' = Entry(d)]_vars

\* C22 witness: two runs side by side, each with an observer: one has failed,
\* the other has handled its first node; each observer holds its own
\* campaign's events and nothing else.
C22_Witness ==
    \E a \in DOMAIN campaigns, b \in DOMAIN campaigns,
       ha \in DOMAIN queues, hb \in DOMAIN queues :
       /\ a # b
       /\ campaigns[a].status = "failed"
       /\ campaigns[b].status # "failed" /\ Len(log[b]) = 2
       /\ Registered(ha) /\ queues[ha].cid = a /\ queues[ha].received = log[a]
       /\ Registered(hb) /\ queues[hb].cid = b /\ queues[hb].received = log[b]
       /\ log[a] # <<>>
       /\ tasks = <<>>

\* C23: create_campaign registers an id the registry did not hold; the new
\* record has status created, the seven stages, all pending, an empty state
\* snapshot and an empty subscriber list; the records and subscriber lists of
\* the campaigns that existed are unchanged.
C23_CreateIsFresh ==
    [][\A c \in CampaignIds :
          (c \notin DOMAIN campaigns /\ c \in DOMAIN campaigns') =>
             /\ campaigns'[c].id = c
             /\ campaigns'[c].status = "created"
             /\ DOMAIN campaigns'[c].stages =
                   {"ingestion", "persona", "drafting", "scoring", "approval",
                    "execution", "persistence"}
             /\ \A s \in DOMAIN campaigns'[c].stages :
                   campaigns'[c].stages[s].status = "pending"
             /\ campaigns'[c].state = EmptyDict
             /\ event_queues'[c] = <<>>
             /\ DOMAIN campaigns' = DOMAIN campaigns \cup {c}
             /\ \A d \in DOMAIN campaigns : campaigns'[d] = campaigns[d]
             /\ \A d \in (DOMAIN event_queues) \ {c} :
                   d \in DOMAIN event_queues' /\ event_queues'[d] = event_queues[d]]_vars

\* C23 witness: a second campaign has just been created beside one that has
\* published events and has a subscriber holding them.
C23_Witness ==
    \E c \in DOMAIN campaigns, d \in DOMAIN campaigns, h \in DOMAIN queues :
       /\ c # d
       /\ campaigns[c].status = "created"
       /\ campaigns[c].current_stage = "pending"
       /\ log[c] = <<>>
       /\ event_queues[c] = <<>>
       /\ Len(log[d]) >= 2
       /\ campaigns[d].stages["ingestion"].status = "completed"
       /\ Registered(h) /\ queues[h].cid = d /\ Len(queues[h].received) >= 2

\* the events handle h holds unread
Backlog(h) == Len(queues[h].received) - queues[h].taken

\* C24: a broadcast puts its event on the queue of every handle registered for
\* the campaign, whatever number of unread events any queue holds: a
\* subscriber that does not read holds nothing up.
C24_PublishNeverWaits ==
    [][(tasks # <<>> /\ tasks' = Tail(tasks)) =>
          \A h \in BroadcastTargets(Head(tasks).cid) :
             /\ queues'[h].received = Append(queues[h].received, Head(tasks).event)
             /\ queues'[h].taken = queues[h].taken]_vars

\* C24 witness: the run has published three events and failed; one observer
\* has read all three, the other none, and holds the three unread.
C24_Witness ==
    \E h \in DOMAIN queues, g \in DOMAIN queues :
       /\ h # g
       /\ Registered(h) /\ Registered(g)
       /\ queues[h].cid = queues[g].cid
       /\ Backlog(h) = 3 /\ queues[h].taken = 0
       /\ Backlog(g) = 0 /\ queues[g].taken = 3
       /\ driver[queues[h].cid].pc = "failed"
       /\ tasks = <<>>

\* C25 (as claimed): when the stream of an observer that subscribed before the
\* campaign's failure ends, the event it yielded last is the failed
\* stage_update, whose message is the campaign's error text: it does not end
\* on an earlier completed event while the failed event is unread.
C25_StreamEndsOnFailedEvent ==
    [][\A h \in DOMAIN streams :
          (/\ streams[h].pc = "yielded"
           /\ streams'[h].pc = "ended"
           /\ driver[streams[h].cid].pc = "failed"
           /\ queues[h].subAt < Len(log[streams[h].cid]))
          => /\ streams[h].last.status = "failed"
             /\ streams[h].last.message = campaigns[streams[h].cid]["error"]]_vars

\* ------------------------------------------------- the channel send tools
\* How a Python call ends: it returns a value or an exception leaves it.
Returned(v) == [raised |-> FALSE, value |-> v]

Raised(text) == [raised |-> TRUE, text |-> text]

\* str(exc) of the exceptions the clients raise
ClientErrors == {"invalid_grant", "quota exceeded"}

\* How one call into a client library ends: it gives a value, or raises an
\* Exception whose text is `text`.
ClientOutcomes ==
    {[ok |-> TRUE, value |-> "id-1"]} \cup {[ok |-> FALSE, text |-> t] : t \in ClientErrors}

\* _init_gmail() and tool.invoke(...), as the Gmail toolkit answers them
GmailClients == [init : ClientOutcomes, invoke : ClientOutcomes]

\* Client(...) and client.messages.create(...), as the Twilio SDK answers them
TwilioClients == [construct : ClientOutcomes, create : ClientOutcomes]

\* settings.twilio: each value is set or empty
TwilioSettings == [account_sid : {"", "AC1"}, auth_token : {"", "tok"}, from_number : {"", "+100"}]

\* send_gmail: the whole body is inside try / except Exception
send_gmail(to, subject, body, client) ==
    IF ~client.init.ok
    THEN Returned([status |-> "error", error |-> client.init.text])
    ELSE IF ~client.invoke.ok
    THEN Returned([status |-> "error", error |-> client.invoke.text])
    ELSE Returned([status |-> "sent", to |-> to, subject |-> subject,
                   message_id |-> client.invoke.value])

\* send_sms with the client calls outside the try block
send_sms_unguarded(to_number, body, settings, client) ==
    IF settings.account_sid = "" \/ settings.auth_token = "" \/ settings.from_number = ""
    THEN Returned([status |-> "error", error |-> "Twilio credentials missing in .env"])
    ELSE IF ~client.construct.ok
    THEN Raised(client.construct.text)
    ELSE IF ~client.create.ok
    THEN Raised(client.create.text)
    ELSE Returned([status |-> "sent", sid |-> client.create.value, to |-> to_number])

\* send_sms: the credentials test comes first and returns an error object;
\* the import, the client's construction and the send are inside
\* try / except Exception
send_sms(to_number, body, settings, client) ==
    IF settings.account_sid = "" \/ settings.auth_token = "" \/ settings.from_number = ""
    THEN Returned([status |-> "error", error |-> "Twilio credentials missing in .env"])
    ELSE IF ~client.construct.ok
    THEN Returned([status |-> "error", error |-> client.construct.text])
    ELSE IF ~client.create.ok
    THEN Returned([status |-> "error", error |-> client.create.text])
    ELSE Returned([status |-> "sent", sid |-> client.create.value, to |-> to_number])

Recipients == {"lead@corp.io"}
Subjects == {"Hello", ""}
MessageBodies == {"Hi there", ""}
PhoneNumbers == {"+15550100"}

\* the calls of the send tools, before they run
SendCalls ==
    {[fn |-> "send_gmail", pc |-> "called", to |-> t, subject |-> s, body |-> b, client |-> k] :
        t \in Recipients, s \in Subjects, b \in MessageBodies, k \in GmailClients}
    \cup
    {[fn |-> "send_sms", pc |-> "called", to |-> t, body |-> b, settings |-> e, client |-> k] :
        t \in PhoneNumbers, b \in MessageBodies, e \in TwilioSettings, k \in TwilioClients}

InitSend ==
    /\ campaigns = EmptyDict
    /\ event_queues = EmptyDict
    /\ queues = EmptyDict
    /\ tasks = <<>>
    /\ driver = EmptyDict
    /\ streams = EmptyDict
    /\ loop = [pc |-> "idle"]
    /\ log = [c \in CampaignIds |-> <<>>]
    /\ responses = {}
    /\ call \in SendCalls

\* the call made, with what came of it
Finished(c, result) == [fn |-> c.fn, pc |-> "returned", input |-> c, result |-> result]

CallSendGmail ==
    /\ call.fn = "send_gmail"
    /\ call.pc = "called"
    /\ call' = Finished(call, send_gmail(call.to, call.subject, call.body, call.client))
    /\ UNCHANGED <<campaigns, event_queues, queues, tasks, driver, streams, loop, log, responses>>

CallSendSms ==
    /\ call.fn = "send_sms"
    /\ call.pc = "called"
    /\ call' = Finished(call, send_sms(call.to, call.body, call.settings, call.client))
    /\ UNCHANGED <<campaigns, event_queues, queues, tasks, driver, streams, loop, log, responses>>

NextSend ==
    \/ CallSendGmail
    \/ CallSendSms

SpecSend == InitSend /\ [][NextSend]_vars

\* the text of the first failure a send call meets, "" when it meets none
FirstFailure(c) ==
    IF c.fn = "send_gmail"
    THEN IF ~c.client.init.ok THEN c.client.init.text
         ELSE IF ~c.client.invoke.ok THEN c.client.invoke.text
         ELSE ""
    ELSE IF "" \in {c.settings.account_sid, c.settings.auth_token, c.settings.from_number}
         THEN "Twilio credentials missing in .env"
         ELSE IF ~c.client.construct.ok THEN c.client.construct.text
         ELSE IF ~c.client.create.ok THEN c.client.create.text
         ELSE ""

\* C26: send_gmail and send_sms never let an exception out. Whatever the
\* client does (initialisation fails, credentials are missing, the send
\* fails, the send succeeds), the call returns an object whose status is
\* sent or error; it is error exactly when something failed, and then the
\* error field holds the text of that failure.
C26_SendsNeverRaise ==
    (call.fn \in {"send_gmail", "send_sms"} /\ call.pc = "returned") =>
        /\ ~call.result.raised
        /\ call.result.value.status \in {"sent", "error"}
        /\ (call.result.value.status = "error") = (FirstFailure(call.input) # "")
        /\ call.result.value.status = "error" =>
              /\ "error" \in DOMAIN call.result.value
              /\ call.result.value.error = FirstFailure(call.input)

\* C26 witness: send_sms has returned after the Twilio client, built with
\* all credentials present, raised on the send; the result is an error
\* object holding the exception's text.
C26_Witness ==
    /\ call.fn = "send_sms"
    /\ call.pc = "returned"
    /\ FirstFailure(call.input) = "quota exceeded"
    /\ call.input.client.construct.ok
    /\ ~call.input.client.create.ok
    /\ ~call.result.raised
    /\ call.result.value = [status |-> "error", error |-> "quota exceeded"]

\* ------------------------------------------------------ the storage gate
MaxDrafts == 2

\* free text, some of it holding a phone number or an e-mail address
Texts == {"", "Acme", "call +1 415 555 1234", "mail jo@corp.io"}

\* _scrub_text: phone numbers, then e-mail addresses, are replaced
_scrub_text(text) ==
    CASE text = "call +1 415 555 1234" -> "call [REDACTED-PHONE]"
      [] text = "mail jo@corp.io" -> "mail [REDACTED-EMAIL]"
      [] OTHER -> text

\* str.lower() on the link keys in use
Lower(k) ==
    CASE k = "LinkedIn" -> "linkedin"
      [] k = "GitHub" -> "github"
      [] OTHER -> k

allowed_link_keys ==
    {"linkedin", "company_site", "twitter", "github", "portfolio", "blog", "website"}

\* a link's value: a str or not
LinkStr(v) == [type |-> "str", value |-> v]

LinkOther(v) == [type |-> "int", value |-> v]

\* the links dicts of the payloads
LinkDicts ==
    {EmptyDict,
     [k \in {"linkedin"} |-> LinkStr("https://li/x")],
     [k \in {"LinkedIn", "home_address"} |->
         IF k = "LinkedIn" THEN LinkStr("https://li/x") ELSE LinkStr("1 Main St")],
     [k \in {"github", "GitHub", "twitter", "phone"} |->
         IF k = "github" THEN LinkOther(7) ELSE LinkStr("https://x")]}

\* the draft dicts of the payloads: with every key, with keys missing, with
\* keys the gate does not know
DraftDicts ==
    {[channel |-> "email", subject |-> "mail jo@corp.io", body |-> "call +1 415 555 1234",
      score |-> 8, approved |-> TRUE, sent |-> TRUE],
     [channel |-> "sms", subject |-> "", body |-> "Acme", score |-> 5,
      recipient |-> "+1 415 555 1234"],
     [body |-> "Acme", to |-> "jo@corp.io", full_name |-> "Jo Doe"],
     [channel |-> "linkedin"]}

DraftLists == UNION {[1..n -> DraftDicts] : n \in 0..MaxDrafts}

\* the parts a payload is put together from
ScalarParts ==
    {EmptyDict,
     [k \in {"company"} |-> ""],
     [k \in {"company", "phone"} |-> IF k = "company" THEN "Acme" ELSE "call +1 415 555 1234"],
     [k \in {"company", "role", "industry"} |-> IF k = "role" THEN "mail jo@corp.io" ELSE "Acme"]}

LinkParts == {EmptyDict} \cup {[k \in {"links"} |-> l] : l \in LinkDicts}

PersonaParts ==
    {EmptyDict,
     [k \in {"tone_json", "interests"} |-> EmptyDict],
     [k \in {"recent_activity", "communication_style"} |->
         IF k = "recent_activity" THEN "mail jo@corp.io" ELSE ""],
     ("tone_json" :> [tone |-> "warm"]) @@ ("interests" :> <<"ai", "golf">>)
        @@ ("recent_activity" :> "Acme") @@ ("communication_style" :> "call +1 415 555 1234")}

RawParts ==
    {EmptyDict,
     [k \in {"raw_input", "raw_profile_text", "target_identifier", "status"} |->
         IF k = "status" THEN "persisted" ELSE "Jo Doe, jo@corp.io"]}

DraftParts == {EmptyDict} \cup {[k \in {"drafts"} |-> d] : d \in DraftLists}

Payloads ==
    {s @@ l @@ p @@ r @@ d :
        s \in ScalarParts, l \in LinkParts, p \in PersonaParts, r \in RawParts, d \in DraftParts}

\* payload.get(key) is true in Python's sense: a non-empty str
TruthyText(payload, key) == key \in DOMAIN payload /\ payload[key] # ""

\* payload.get(key) is true in Python's sense: a non-empty dict or list
TruthyItems(payload, key) == key \in DOMAIN payload /\ DOMAIN payload[key] # {}

\* the scalar fields: each of company, role, industry kept when it is set
RECURSIVE ScalarFields(_, _, _)
ScalarFields(safe, payload, keys) ==
    IF keys = <<>> THEN safe
    ELSE ScalarFields(IF TruthyText(payload, Head(keys))
                      THEN Put(safe, Head(keys), _scrub_text(payload[Head(keys)]))
                      ELSE safe,
                      payload, Tail(keys))

\* one stored draft
SafeDraft(d) ==
    [channel |-> Get(d, "channel", "unknown"),
     subject |-> IF TruthyText(d, "subject") THEN _scrub_text(d["subject"]) ELSE None,
     body |-> _scrub_text(Get(d, "body", "")),
     score |-> Get(d, "score", None),
     approved |-> Get(d, "approved", FALSE),
     sent |-> Get(d, "sent", FALSE)]

\* the gate that copies the payload and then deletes nothing
sanitize_copy_all(payload) ==
    LET raw_links == IF TruthyItems(payload, "links") THEN payload["links"] ELSE EmptyDict
        raw_drafts == IF TruthyItems(payload, "drafts") THEN payload["drafts"] ELSE <<>>
    IN  Put(Put(payload, "links", raw_links),
            "drafts", [i \in 1..Len(raw_drafts) |-> SafeDraft(raw_drafts[i])])

\* sanitize_for_storage: a new dict, filled key by key
sanitize_for_storage(payload) ==
    LET safe1 == ScalarFields(EmptyDict, payload, <<"company", "role", "industry">>)
        raw_links == IF TruthyItems(payload, "links") THEN payload["links"] ELSE EmptyDict
        kept == {k \in DOMAIN raw_links :
                    Lower(k) \in allowed_link_keys /\ raw_links[k].type = "str"}
        safe2 == Put(safe1, "links", [k \in kept |-> raw_links[k]])
        safe3 == IF TruthyItems(payload, "tone_json")
                 THEN Put(safe2, "tone_json", payload["tone_json"]) ELSE safe2
        safe4 == IF TruthyItems(payload, "interests")
                 THEN Put(safe3, "interests", payload["interests"]) ELSE safe3
        safe5 == IF TruthyText(payload, "recent_activity")
                 THEN Put(safe4, "recent_activity", _scrub_text(payload["recent_activity"]))
                 ELSE safe4
        safe6 == IF TruthyText(payload, "communication_style")
                 THEN Put(safe5, "communication_style",
                          _scrub_text(payload["communication_style"]))
                 ELSE safe5
        raw_drafts == IF TruthyItems(payload, "drafts") THEN payload["drafts"] ELSE <<>>
    IN  Put(safe6, "drafts", [i \in 1..Len(raw_drafts) |-> SafeDraft(raw_drafts[i])])

InitSanitize ==
    /\ campaigns = EmptyDict
    /\ event_queues = EmptyDict
    /\ queues = EmptyDict
    /\ tasks = <<>>
    /\ driver = EmptyDict
    /\ streams = EmptyDict
    /\ loop = [pc |-> "idle"]
    /\ log = [c \in CampaignIds |-> <<>>]
    /\ responses = {}
    /\ call \in {[fn |-> "sanitize_for_storage", pc |-> "called", payload |-> p] : p \in Payloads}

CallSanitize ==
    /\ call.fn = "sanitize_for_storage"
    /\ call.pc = "called"
    /\ call' = Finished(call, Returned(sanitize_for_storage(call.payload)))
    /\ UNCHANGED <<campaigns, event_queues, queues, tasks, driver, streams, loop, log, responses>>

NextSanitize == CallSanitize

SpecSanitize == InitSanitize /\ [][NextSanitize]_vars

StoredKeys ==
    {"company", "role", "industry", "links", "tone_json", "interests", "recent_activity",
     "communication_style", "drafts"}

StoredDraftKeys == {"channel", "subject", "body", "score", "approved", "sent"}

\* the drafts of a payload, none when the key is missing
InputDrafts(payload) == Get(payload, "drafts", <<>>)

\* the result's keys are stored keys, and its drafts are the input's drafts
\* in number and channel order, each with exactly the six draft keys
KeysAndDraftsKept(payload, safe) ==
    /\ DOMAIN safe \subseteq StoredKeys
    /\ "links" \in DOMAIN safe
    /\ "drafts" \in DOMAIN safe
    /\ Len(safe["drafts"]) = Len(InputDrafts(payload))
    /\ \A i \in 1..Len(safe["drafts"]) :
          /\ DOMAIN safe["drafts"][i] = StoredDraftKeys
          /\ safe["drafts"][i].channel = Get(InputDrafts(payload)[i], "channel", "unknown")

SanitizeReturned == call.fn = "sanitize_for_storage" /\ call.pc = "returned"

NextDecide ==
    \/ \E c \in ApiCampaigns : ApiCreateCampaign(c)
    \/ \E c \in ApiCampaigns : DriverEvent(c)
    \/ \E c \in ApiCampaigns : DriverExhausted(c)
    \/ \E c \in ApiCampaigns, a \in ApprovedLists, g \in RegenLists :
          ApproveDraftsRequest(c, a, g)
    \/ RunBroadcast

SpecDecide == Init /\ [][NextDecide]_vars

\* approve_drafts has stored a decision for c and answered
DecisionAnswered(c) == [op |-> "approve", cid |-> c, code |-> 200] \in responses

\* the events of the execution stage in a log
ExecutionEvents(events) ==
    {i \in 1..Len(events) :
        events[i].stage = "execution" /\ events[i].status \in {"running", "completed"}}

\* C28: the driver marks the execution stage running or completed only
\* after approve_drafts has stored a decision for the campaign, and the step
\* that handles the approval node ends with the driver suspended, whatever
\* the approval node's state holds (drafts, an empty drafts list, no drafts).
C28_NoExecutionBeforeDecision ==
    [][\A c \in DOMAIN driver :
          /\ ExecutionEvents(log'[c]) # ExecutionEvents(log[c]) => DecisionAnswered(c)
          /\ ("approval" \in driver'[c].emitted /\ "approval" \notin driver[c].emitted)
                => driver'[c].pc = "suspended"]_vars

\* the campaign's state snapshot holds a decision
HoldsDecision(c) ==
    /\ c \in DOMAIN campaigns
    /\ {"approved_channels", "regen_channels"} \subseteq DOMAIN campaigns[c].state

\* the decision the campaign's state snapshot holds
StoredDecision(c) ==
    [approved |-> campaigns[c].state["approved_channels"],
     regen |-> campaigns[c].state["regen_channels"]]

\* C30: a decision stored by approve_drafts is never lost. From the return
\* of approve_drafts on, the campaign's state snapshot holds the submitted
\* approved_channels and regen_channels: no step of the driver (its
\* update_state calls included) removes or changes them, whether the decision
\* came while the driver was running stages or after it suspended; only a
\* later approve_drafts call replaces them.
C30_DecisionKept ==
    [][\A c \in DOMAIN campaigns :
          (DecisionAnswered(c) /\ HoldsDecision(c)) =>
             /\ HoldsDecision(c)'
             /\ \/ StoredDecision(c)' = StoredDecision(c)
                \/ (driver' = driver /\ log' = log)]_vars

\* C29: run_campaign_workflow, given a campaign id the registry does not
\* hold, never ends with an exception leaving it: on the normal path and when
\* a stage worker raises, it goes on or returns (suspended at approval, or
\* done).
C29_UnknownIdNeverRaises ==
    \A c \in (DOMAIN driver) \ (DOMAIN campaigns) :
       driver[c].pc \in {"streaming", "suspended", "done", "failed"}

\* C31: the keys of a campaign's stage table never change: after any
\* sequence of driver steps, a worker failure before any stage was touched
\* included, they are exactly the seven stages ingestion, persona, drafting,
\* scoring, approval, execution, persistence.
C31_StageKeysConstant ==
    \A c \in DOMAIN campaigns : DOMAIN campaigns[c].stages = StageNames

\* C32: when run_approval_loop calls execution_node, a draft is approved
\* exactly when its channel is in the approved list of the decision just
\* handled, and the state's approved_channels is that list: what earlier
\* decisions approved does not count.
C32_LastDecisionDecides ==
    [][(Decided /\ loop'.pc = "execute") =>
          /\ loop'.approved_channels \in DecisionLists
          /\ \A i \in DOMAIN loop'.drafts :
                loop'.drafts[i].approved = (loop'.drafts[i].channel \in ListedApproved)
          /\ \A i \in DOMAIN loop.drafts :
                (loop.drafts[i].approved /\ loop.drafts[i].channel \notin ListedApproved)
                => ~loop'.drafts[i].approved]_vars

\* C32 witness: execution is about to be called after a second decision that
\* approved only sms; the email draft, approved by the first decision and
\* not regenerated, is handed over unapproved.
C32_Witness ==
    /\ loop.pc = "execute"
    /\ loop.regenerated = 1
    /\ loop.scorings = 2
    /\ loop.approved_channels = <<"sms">>
    /\ loop.regen = <<>>
    /\ loop.drafts[1].channel = "email"
    /\ loop.drafts[1].body = <<"email", 1>> /\ ~loop.drafts[1].approved
    /\ loop.drafts[2].approved
    /\ loop.drafts[3].body = <<"linkedin", 2>>

\* an upper bound on the steps run_approval_loop has left
LoopVariant(l) ==
    CASE l.pc = "idle" -> 2 * MAX_REGEN + 5
      [] l.pc = "score" -> 2 * (MAX_REGEN - l.regen_round) + 4
      [] l.pc = "prompt" -> 2 * (MAX_REGEN - l.regen_round) + 3
      [] l.pc = "execute" -> 2
      [] l.pc = "persist" -> 1
      [] OTHER -> 0

\* scoring_node has scored the drafts the operator is shown
ScoredWhenShown(l) ==
    l.pc = "prompt" =>
       /\ l.scorings >= 1
       /\ \A i \in DOMAIN l.drafts : l.drafts[i].score = "scored"

\* C33: run_approval_loop terminates whatever the operator decides: every
\* step brings it nearer to its return and it is never stuck before it;
\* scoring_node is called at most MAX_REGEN + 1 times; the drafts shown at a
\* decision prompt have just been scored; and after the last decision
\* execution_node runs once, then persistence_node once, then the loop is
\* over.
C33_LoopTerminates ==
    /\ [](loop.pc # "done" => ENABLED NextLoop)
    /\ [][/\ LoopVariant(loop') < LoopVariant(loop)
          /\ LoopVariant(loop') >= 0
          /\ loop'.scorings <= MAX_REGEN + 1
          /\ ScoredWhenShown(loop')
          /\ loop'.pc = "prompt" => (loop.pc = "score" /\ loop'.scorings = loop.scorings + 1)
          /\ loop'.pc = "execute" => loop.pc = "prompt"
          /\ loop'.pc = "persist" => loop.pc = "execute"
          /\ loop'.pc = "done" => loop.pc = "persist"
          /\ loop.pc = "execute" => loop'.pc = "persist"
          /\ loop.pc = "persist" => loop'.pc = "done"]_vars

\* C33 witness: the loop is over after four scorings: three regeneration
\* rounds, a fourth regen request that was dropped, execution, persistence.
C33_Witness ==
    /\ loop.pc = "done"
    /\ loop.scorings = MAX_REGEN + 1
    /\ loop.regenerated = MAX_REGEN
    /\ loop.regen_round = MAX_REGEN + 1
    /\ loop.status = "persisted"

\* Stream h waits in queue.get() and nothing will wake it: its campaign is
\* completed or failed, the workflow task is over, no broadcast of the
\* campaign is pending and the queue holds nothing unread.
StreamLeftWaiting(h) ==
    LET c == streams[h].cid IN
       /\ streams[h].pc = "open"
       /\ c \in DOMAIN campaigns
       /\ campaigns[c].status \in {"completed", "failed"}
       /\ driver[c].pc \in {"failed", "done"}
       /\ Pending(c) = 0
       /\ Backlog(h) = 0

\* C34: every stream on a campaign ends and unsubscribes its queue once the
\* campaign is completed or failed, whenever it was opened: no stream is left
\* waiting for an event that will never come; and the queue of a stream that
\* has ended, for any reason, is not registered.
C34_StreamsEnd ==
    \A h \in DOMAIN streams :
       /\ streams[h].pc \in {"ended", "closed"} => ~Registered(h)
       /\ ~StreamLeftWaiting(h)

====
